---------------------------- MODULE Spec2Model ----------------------------
(***************************************************************************)
(* Model of the pf input plugin (plugins/inputs/pf/pf.go).                 *)
(*                                                                         *)
(* A text is a sequence of lines.  A line is a record                      *)
(*     [ind |-> number of leading blanks, words |-> the blank-separated    *)
(*      non-numeric tokens, nums |-> the decimal tokens that follow them]  *)
(* so that the regular expressions of the source become predicates on the  *)
(* tokens of a line.  Runs of blanks between tokens are not distinguished. *)
(* Lines with leading blanks carry at least one word or no token at all.   *)
(* The empty line is [ind |-> 0, words |-> <<>>, nums |-> <<>>].           *)
(***************************************************************************)
EXTENDS Integers, Sequences, FiniteSets, TLC

VARIABLES
    Value,          \* Entry.Value of every entry of the three global tables
    Found,          \* pfctlOutputStanza.Found of the three global stanzas
    PfctlCommand,   \* PF.PfctlCommand
    PfctlArgs,      \* PF.PfctlArgs
    UseSudo,        \* PF.UseSudo, set from the use_sudo option at construction
    acc,            \* accumulator calls made by the last Gather
    pfoutput,       \* the text handed to the last parsePfctlOutput call
    perr,           \* the error returned by the last parsePfctlOutput call
    fresh,          \* the last parse started from the initial tables
    calls,          \* the ParseFunc calls of the last parsePfctlOutput call
    cursor,         \* the number of lines the scanner of the last parse returned
    ret,            \* the error returned by the last Gather
    proc            \* the parsePfctlOutput calls that run side by side (SpecConc)

vars == <<Value, Found, PfctlCommand, PfctlArgs, UseSudo, acc,
          pfoutput, perr, fresh, calls, cursor, ret, proc>>

---------------------------------------------------------------------------
(* Bounds *)

\* number of distinct value sets a text can be written with
MaxVer == 2
\* stand-in for the largest signed 64-bit integer (strconv.ParseInt, bitSize 64)
MaxInt64 == 1000

---------------------------------------------------------------------------
(* Constants of the source *)

measurement == "pf"
pfctlCommand == "pfctl"

NoErr == [kind |-> "nil", tag |-> ""]
errParseHeader == [kind |-> "errParseHeader", tag |-> pfctlCommand]
errMissingData(tag) == [kind |-> "errMissingData", tag |-> tag]
\* the *strconv.NumError (ErrRange) of strconv.ParseInt
errRange == [kind |-> "ErrRange", tag |-> "ParseInt"]

pfctlOutputStanzas ==
    << [HeaderRE |-> <<"Interface", "Stats">>, ParseFunc |-> "parseInterfaceTable", Optional |-> TRUE],
       [HeaderRE |-> <<"State", "Table">>,     ParseFunc |-> "parseStateTable",     Optional |-> FALSE],
       [HeaderRE |-> <<"Counters">>,           ParseFunc |-> "parseCounterTable",   Optional |-> FALSE] >>

InterfaceTable ==
    << [Field |-> "bytes4-in",            PfctlTitle |-> "Bytes In IPv4",            Value |-> -1],
       [Field |-> "bytes4-out",           PfctlTitle |-> "Bytes Out IPv4",           Value |-> -1],
       [Field |-> "bytes6-in",            PfctlTitle |-> "Bytes In IPv6",            Value |-> -1],
       [Field |-> "bytes6-out",           PfctlTitle |-> "Bytes Out IPv6",           Value |-> -1],
       [Field |-> "packets4-in-passed",   PfctlTitle |-> "Packets In Passed IPv4",   Value |-> -1],
       [Field |-> "packets4-in-blocked",  PfctlTitle |-> "Packets In Blocked IPv4",  Value |-> -1],
       [Field |-> "packets4-out-passed",  PfctlTitle |-> "Packets Out Passed IPv4",  Value |-> -1],
       [Field |-> "packets4-out-blocked", PfctlTitle |-> "Packets Out Blocked IPv4", Value |-> -1],
       [Field |-> "packets6-in-passed",   PfctlTitle |-> "Packets In Passed IPv6",   Value |-> -1],
       [Field |-> "packets6-in-blocked",  PfctlTitle |-> "Packets In Blocked IPv6",  Value |-> -1],
       [Field |-> "packets6-out-passed",  PfctlTitle |-> "Packets Out Passed IPv6",  Value |-> -1],
       [Field |-> "packets6-out-blocked", PfctlTitle |-> "Packets Out Blocked IPv6", Value |-> -1] >>

StateTable ==
    << [Field |-> "entries",  PfctlTitle |-> "current entries", Value |-> -1],
       [Field |-> "searches", PfctlTitle |-> "searches",        Value |-> -1],
       [Field |-> "inserts",  PfctlTitle |-> "inserts",         Value |-> -1],
       [Field |-> "removals", PfctlTitle |-> "removals",        Value |-> -1] >>

CounterTable ==
    << [Field |-> "match",          PfctlTitle |-> "match",          Value |-> -1],
       [Field |-> "bad-offset",     PfctlTitle |-> "bad-offset",     Value |-> -1],
       [Field |-> "fragment",       PfctlTitle |-> "fragment",       Value |-> -1],
       [Field |-> "short",          PfctlTitle |-> "short",          Value |-> -1],
       [Field |-> "normalize",      PfctlTitle |-> "normalize",      Value |-> -1],
       [Field |-> "memory",         PfctlTitle |-> "memory",         Value |-> -1],
       [Field |-> "bad-timestamp",  PfctlTitle |-> "bad-timestamp",  Value |-> -1],
       [Field |-> "congestion",     PfctlTitle |-> "congestion",     Value |-> -1],
       [Field |-> "ip-option",      PfctlTitle |-> "ip-option",      Value |-> -1],
       [Field |-> "proto-cksum",    PfctlTitle |-> "proto-cksum",    Value |-> -1],
       [Field |-> "state-mismatch", PfctlTitle |-> "state-mismatch", Value |-> -1],
       [Field |-> "state-insert",   PfctlTitle |-> "state-insert",   Value |-> -1],
       [Field |-> "state-limit",    PfctlTitle |-> "state-limit",    Value |-> -1],
       [Field |-> "src-limit",      PfctlTitle |-> "src-limit",      Value |-> -1],
       [Field |-> "synproxy",       PfctlTitle |-> "synproxy",       Value |-> -1] >>

\* the entry table a stanza's ParseFunc hands to storeFieldValues
entryTable(k) ==
    CASE pfctlOutputStanzas[k].ParseFunc = "parseInterfaceTable" -> InterfaceTable
      [] pfctlOutputStanzas[k].ParseFunc = "parseStateTable"     -> StateTable
      [] pfctlOutputStanzas[k].ParseFunc = "parseCounterTable"   -> CounterTable

Stanzas == 1..Len(pfctlOutputStanzas)

---------------------------------------------------------------------------
(* Lines and the regular expressions *)

Line(ind, words, nums) == [ind |-> ind, words |-> words, nums |-> nums]
\* scanner.Text() after a Scan that returned false
NoLine == Line(0, <<>>, <<>>)

\* words of the model's vocabulary that begin with an upper-case letter
UpperInitial ==
    {"Interface", "State", "Counters", "Status:", "Packets", "Bytes",
     "Passed", "Blocked", "Limit"}

IsPrefix(p, s) == Len(p) <= Len(s) /\ SubSeq(s, 1, Len(p)) = p

RECURSIVE Join(_)
\* the words of a label separated by single blanks
Join(ws) ==
    IF ws = <<>> THEN ""
    ELSE IF Len(ws) = 1 THEN ws[1]
    ELSE ws[1] \o " " \o Join(Tail(ws))

\* s.HeaderRE.MatchString(line): "^Interface Stats", "^State Table", "^Counters"
HeaderRE(k, line) == line.ind = 0 /\ IsPrefix(pfctlOutputStanzas[k].HeaderRE, line.words)

\* "^[A-Z]"
anyTableHeaderRE(line) ==
    line.ind = 0 /\ line.words # <<>> /\ line.words[1] \in UpperInitial

\* `^(\s+Packets In|\s+Packets Out)`
packetsRE(line) ==
    line.ind > 0 /\ (IsPrefix(<<"Packets", "In">>, line.words)
                     \/ IsPrefix(<<"Packets", "Out">>, line.words))

\* `^(\s+Bytes In|\s+Bytes Out)\s+(\d+)\s+(\d+)`
bytesRE(line) ==
    line.ind > 0 /\ line.words \in {<<"Bytes", "In">>, <<"Bytes", "Out">>}
                 /\ Len(line.nums) >= 2

\* `^\s+(.*?)\s+(\d+)\s+(\d+)`
IPvRE(line) == line.ind > 0 /\ line.words # <<>> /\ Len(line.nums) >= 2

\* `^\s+(.*?)\s+(\d+)` (interfaceTableRE, stateTableRE, counterTableRE)
tableRE(line) == line.ind > 0 /\ line.words # <<>> /\ Len(line.nums) >= 1

---------------------------------------------------------------------------
(* storeFieldValues *)

\* strconv.ParseInt(s, 10, 64): out of range gives the largest value and ErrRange
ParseInt(n) ==
    IF n > MaxInt64 THEN [v |-> MaxInt64, err |-> errRange]
    ELSE [v |-> n, err |-> NoErr]

\* index of the entry whose PfctlTitle is the label, 0 when there is none
TitleIndex(table, label) ==
    IF \E i \in 1..Len(table) : table[i].PfctlTitle = label
    THEN CHOOSE i \in 1..Len(table) : table[i].PfctlTitle = label
    ELSE 0

RECURSIVE StoreLines(_, _, _, _)
\* first loop of storeFieldValues, from line i on: [vals, err]
StoreLines(lines, table, vals, i) ==
    IF i > Len(lines) THEN [vals |-> vals, err |-> NoErr]
    ELSE LET v == lines[i]
             f == IF tableRE(v) THEN TitleIndex(table, Join(v.words)) ELSE 0
         IN IF f = 0 THEN StoreLines(lines, table, vals, i + 1)
            ELSE LET p == ParseInt(v.nums[1])
                     nv == [vals EXCEPT ![f] = p.v]
                 IN IF p.err # NoErr THEN [vals |-> nv, err |-> p.err]
                    ELSE StoreLines(lines, table, nv, i + 1)

RECURSIVE CopyFields(_, _, _, _)
\* second loop of storeFieldValues, from entry i on: [fields, err]
CopyFields(table, vals, fields, i) ==
    IF i > Len(table) THEN [fields |-> fields, err |-> NoErr]
    ELSE IF vals[i] = -1
         THEN [fields |-> fields, err |-> errMissingData(table[i].PfctlTitle)]
         ELSE CopyFields(table, vals, (table[i].Field :> vals[i]) @@ fields, i + 1)

\* the second loop of storeFieldValues after the first one ended in state s
StoreResult(table, fields, s) ==
    IF s.err # NoErr THEN [vals |-> s.vals, fields |-> fields, err |-> s.err]
    ELSE [vals |-> s.vals] @@ CopyFields(table, s.vals, fields, 1)

\* storeFieldValues(lines, regex, fields, entryTable): [vals, fields, err]
storeFieldValues(lines, fields, table, vals) ==
    StoreResult(table, fields, StoreLines(lines, table, vals, 1))

---------------------------------------------------------------------------
(* parsePfctlOutput *)

\* scanner.Scan() and scanner.Text() on a scanner that has returned pos lines
ScanMore(text, pos) == pos < Len(text)
ScanPos(text, pos) == IF pos < Len(text) THEN pos + 1 ELSE pos
ScanText(text, pos) == IF pos < Len(text) THEN text[pos + 1] ELSE NoLine

\* an injection that keeps a line without the two integers as it is
InjectIPv_keepMalformed(buf, entries, l) ==
    IF IPvRE(l)
    THEN buf \o << Line(entries.ind, entries.words \o l.words \o <<"IPv4">>, <<l.nums[1]>>),
                   Line(entries.ind, entries.words \o l.words \o <<"IPv6">>, <<l.nums[2]>>) >>
    ELSE Append(buf, l)

\* the injection of the earlier revision of the plugin: the Packets label put
\* in front of the Passed or Blocked line, one line for both protocols
InjectIPv_oneLine(buf, entries, l) ==
    IF IPvRE(l)
    THEN Append(buf, Line(entries.ind, entries.words \o l.words, l.nums))
    ELSE buf

\* the two lines injected for a Passed or Blocked line l after the Packets line
InjectIPv(buf, entries, l) ==
    IF IPvRE(l)
    THEN buf \o << Line(entries.ind, entries.words \o l.words \o <<"IPv4">>, <<l.nums[1]>>),
                   Line(entries.ind, entries.words \o l.words \o <<"IPv6">>, <<l.nums[2]>>) >>
    ELSE buf

RECURSIVE PacketsLines(_, _, _, _, _, _)
\* the look-ahead loop for i := 0; i < 2; i++ after a Packets line
PacketsLines(text, pos, line, buf, entries, i) ==
    IF i >= 2 THEN [pos |-> pos, line |-> line, buf |-> buf]
    ELSE IF ~ScanMore(text, pos) THEN PacketsLines(text, pos, line, buf, entries, i + 1)
    ELSE PacketsLines(text, ScanPos(text, pos), ScanText(text, pos),
                      InjectIPv(buf, entries, ScanText(text, pos)), entries, i + 1)

\* the loop body of the earlier revision of the plugin, without the Bytes case
CollectLine_noBytes(text, pos, line, buf) ==
    IF packetsRE(line)
    THEN PacketsLines(text, pos, line, buf, Line(line.ind, SubSeq(line.words, 1, 2), <<>>), 0)
    ELSE [pos |-> pos, line |-> line, buf |-> Append(buf, line)]

\* one pass of the body of the collection loop, before its trailing Scan
CollectLine(text, pos, line, buf) ==
    IF packetsRE(line)
    THEN PacketsLines(text, pos, line, buf, Line(line.ind, SubSeq(line.words, 1, 2), <<>>), 0)
    ELSE IF bytesRE(line)
    THEN [pos |-> pos, line |-> line,
          buf |-> buf \o << Line(line.ind, line.words \o <<"IPv4">>, <<line.nums[1]>>),
                            Line(line.ind, line.words \o <<"IPv6">>, <<line.nums[2]>>) >>]
    ELSE [pos |-> pos, line |-> line, buf |-> Append(buf, line)]

RECURSIVE Collect(_, _, _, _), CollectMore(_, _)
\* the loop for !anyTableHeaderRE.MatchString(line): [pos, line, buf]
Collect(text, pos, line, buf) ==
    IF anyTableHeaderRE(line) THEN [pos |-> pos, line |-> line, buf |-> buf]
    ELSE CollectMore(text, CollectLine(text, pos, line, buf))

\* a collection loop that gives up its buffer when the input runs out
CollectMore_dropAtEnd(text, c) ==
    IF ScanMore(text, c.pos)
    THEN Collect(text, ScanPos(text, c.pos), ScanText(text, c.pos), c.buf)
    ELSE [c EXCEPT !.buf = <<>>]

\* the trailing Scan of the collection loop: go on with the next line, or break
CollectMore(text, c) ==
    IF ScanMore(text, c.pos)
    THEN Collect(text, ScanPos(text, c.pos), ScanText(text, c.pos), c.buf)
    ELSE c

\* the tables and the map after storeFieldValues returned r for stanza k
TableResult(k, vals, r) ==
    [vals |-> [vals EXCEPT ![k] = r.vals], fields |-> r.fields, err |-> r.err]

\* s.ParseFunc(stanzaLines, fields) for stanza k
ParseFunc(k, stanzaLines, fields, vals) ==
    TableResult(k, vals, storeFieldValues(stanzaLines, fields, entryTable(k), vals[k]))

\* the record of one s.ParseFunc(stanzaLines, fields) call: the stanza, the
\* index of its header line, the buffer, the lines read and the current line
\* when the collection ended, and the error returned
Call(k, hdr, c, err) ==
    [k |-> k, hdr |-> hdr, buf |-> c.buf, end |-> c.pos, line |-> c.line, err |-> err]

RECURSIVE RangeStanzas(_, _, _), StanzaParsed(_, _, _, _, _), StanzaCollected(_, _, _, _)
\* for _, s := range pfctlOutputStanzas, from stanza k on, with the current line
\* st = [pos, line, vals, found, fields, err, calls]
RangeStanzas(text, st, k) ==
    IF k > Len(pfctlOutputStanzas) THEN st
    ELSE IF ~HeaderRE(k, st.line) THEN RangeStanzas(text, st, k + 1)
    ELSE StanzaCollected(text, st, k,
                         Collect(text, ScanPos(text, st.pos), ScanText(text, st.pos), <<>>))

\* the collection of stanza k ended in c: call its ParseFunc
StanzaCollected(text, st, k, c) ==
    StanzaParsed(text, st, k, c, ParseFunc(k, c.buf, st.fields, st.vals))

\* a range loop that sets Found before it looks at the error of the ParseFunc
StanzaParsed_foundFirst(text, st, k, c, r) ==
    IF r.err # NoErr
    THEN [st EXCEPT !.pos = c.pos, !.line = c.line, !.vals = r.vals, !.err = r.err,
                    !.found = [st.found EXCEPT ![k] = TRUE],
                    !.calls = Append(st.calls, Call(k, st.pos, c, r.err))]
    ELSE RangeStanzas(text,
                      [pos |-> c.pos, line |-> c.line, vals |-> r.vals,
                       found |-> [st.found EXCEPT ![k] = TRUE],
                       fields |-> r.fields, err |-> NoErr,
                       calls |-> Append(st.calls, Call(k, st.pos, c, NoErr))],
                      k + 1)

\* the ParseFunc of stanza k returned r: return its error, or set Found and go on
StanzaParsed(text, st, k, c, r) ==
    IF r.err # NoErr
    THEN [st EXCEPT !.pos = c.pos, !.line = c.line, !.vals = r.vals, !.err = r.err,
                    !.calls = Append(st.calls, Call(k, st.pos, c, r.err))]
    ELSE RangeStanzas(text,
                      [pos |-> c.pos, line |-> c.line, vals |-> r.vals,
                       found |-> [st.found EXCEPT ![k] = TRUE],
                       fields |-> r.fields, err |-> NoErr,
                       calls |-> Append(st.calls, Call(k, st.pos, c, NoErr))],
                      k + 1)

RECURSIVE ScanLoop(_, _), ScanLine(_, _)
\* for scanner.Scan() { ... }
ScanLoop(text, st) ==
    IF ~ScanMore(text, st.pos) THEN st
    ELSE ScanLine(text, RangeStanzas(text, [st EXCEPT !.pos = ScanPos(text, st.pos),
                                                      !.line = ScanText(text, st.pos)], 1))

\* after the range loop of one line: return the error, or scan the next line
ScanLine(text, r) == IF r.err # NoErr THEN r ELSE ScanLoop(text, r)

\* a final loop that fails only when no mandatory stanza was found
HeaderCheck_allMissing(found) ==
    IF \A k \in Stanzas : ~pfctlOutputStanzas[k].Optional => ~found[k]
    THEN errParseHeader
    ELSE NoErr

\* the final loop over pfctlOutputStanzas: the first non-optional stanza not found
HeaderCheck(found) ==
    IF \E k \in Stanzas : ~pfctlOutputStanzas[k].Optional /\ ~found[k]
    THEN errParseHeader
    ELSE NoErr

EmptyFields == [k \in {} |-> 0]

AddFields(fields) ==
    [call |-> "AddFields", measurement |-> measurement, fields |-> fields, err |-> NoErr]

\* an end of parsePfctlOutput that calls acc.AddFields before the final loop
Report_first(st) ==
    IF st.err # NoErr
    THEN [vals |-> st.vals, found |-> st.found, err |-> st.err, added |-> <<>>,
          calls |-> st.calls, pos |-> st.pos]
    ELSE [vals |-> st.vals, found |-> st.found, err |-> HeaderCheck(st.found),
          added |-> << AddFields(st.fields) >>, calls |-> st.calls, pos |-> st.pos]

\* the end of parsePfctlOutput once the scan ended in st: the error of the scan,
\* or the error of the final loop, or acc.AddFields and nil
Report(st) ==
    IF st.err # NoErr
    THEN [vals |-> st.vals, found |-> st.found, err |-> st.err, added |-> <<>>,
          calls |-> st.calls, pos |-> st.pos]
    ELSE IF HeaderCheck(st.found) # NoErr
    THEN [vals |-> st.vals, found |-> st.found, err |-> HeaderCheck(st.found), added |-> <<>>,
          calls |-> st.calls, pos |-> st.pos]
    ELSE [vals |-> st.vals, found |-> st.found, err |-> NoErr,
          added |-> << AddFields(st.fields) >>, calls |-> st.calls, pos |-> st.pos]

\* parsePfctlOutput(pfoutput, acc) on tables (vals, found):
\* [vals, found, err, added, calls, pos] where added is the sequence of
\* acc.AddFields calls, calls the ParseFunc calls and pos the lines scanned
parsePfctlOutput(text, vals, found) ==
    Report(ScanLoop(text, [pos |-> 0, line |-> NoLine, vals |-> vals, found |-> found,
                           fields |-> EmptyFields, err |-> NoErr, calls |-> <<>>]))

---------------------------------------------------------------------------
(* The texts pfctl -s info is taken to print *)

Vers == 1..MaxVer

\* the integer a text of value set v carries for entry i of stanza k
Num(v, k, i) == v * 100 + (CASE k = 1 -> 0 [] k = 2 -> 20 [] k = 3 -> 40) + i

StatusLine == Line(0, <<"Status:", "Enabled">>, <<>>)
HeaderLine(k) ==
    CASE k = 1 -> Line(0, <<"Interface", "Stats", "for", "em0", "IPv4", "IPv6">>, <<>>)
      [] k = 2 -> Line(0, <<"State", "Table", "Total", "Rate">>, <<>>)
      [] k = 3 -> Line(0, <<"Counters">>, <<>>)

\* the data lines of a complete stanza, as pfctl lays them out
Body(k, v) ==
    CASE k = 1 ->
           << Line(2, <<"Bytes", "In">>,    <<Num(v, 1, 1), Num(v, 1, 3)>>),
              Line(2, <<"Bytes", "Out">>,   <<Num(v, 1, 2), Num(v, 1, 4)>>),
              Line(2, <<"Packets", "In">>,  <<>>),
              Line(4, <<"Passed">>,         <<Num(v, 1, 5), Num(v, 1, 9)>>),
              Line(4, <<"Blocked">>,        <<Num(v, 1, 6), Num(v, 1, 10)>>),
              Line(2, <<"Packets", "Out">>, <<>>),
              Line(4, <<"Passed">>,         <<Num(v, 1, 7), Num(v, 1, 11)>>),
              Line(4, <<"Blocked">>,        <<Num(v, 1, 8), Num(v, 1, 12)>>) >>
      [] k = 2 ->
           << Line(2, <<"current", "entries">>, <<Num(v, 2, 1)>>),
              Line(2, <<"searches">>,           <<Num(v, 2, 2)>>),
              Line(2, <<"inserts">>,            <<Num(v, 2, 3)>>),
              Line(2, <<"removals">>,           <<Num(v, 2, 4)>>) >>
      [] k = 3 ->
           [i \in 1..Len(CounterTable) |->
               Line(2, <<CounterTable[i].PfctlTitle>>, <<Num(v, 3, i)>>)]

Without(s, i) == SubSeq(s, 1, i - 1) \o SubSeq(s, i + 1, Len(s))

\* a section of a text: a header line and its data lines, possibly defective
Section(sec, v) ==
    CASE sec = "X"       -> << StatusLine >>
      [] sec = "I"       -> << HeaderLine(1) >> \o Body(1, v)
      [] sec = "S"       -> << HeaderLine(2) >> \o Body(2, v)
      [] sec = "C"       -> << HeaderLine(3) >> \o Body(3, v)
      [] sec = "I-bytes" -> << HeaderLine(1) >> \o Without(Body(1, v), 2)
      [] sec = "S-rem"   -> << HeaderLine(2) >> \o Without(Body(2, v), 4)
      [] sec = "S-none"  -> << HeaderLine(2) >>
      [] sec = "C-none"  -> << HeaderLine(3) >>
      [] sec = "S-big"   -> << HeaderLine(2) >>
                            \o [Body(2, v) EXCEPT ![2] = Line(2, <<"searches">>, <<MaxInt64 + 1>>)]
      [] sec = "I-cut"   -> << HeaderLine(1) >> \o SubSeq(Body(1, v), 1, 7)
      [] sec = "I-end"   -> << HeaderLine(1) >> \o SubSeq(Body(1, v), 1, 6)
      [] sec = "I-mal"   -> << HeaderLine(1) >>
                            \o [Body(1, v) EXCEPT ![4] = Line(4, <<"Passed">>, <<Num(v, 1, 5)>>)]

RECURSIVE Concat(_, _)
Concat(shape, v) ==
    IF shape = <<>> THEN <<>> ELSE Section(Head(shape), v) \o Concat(Tail(shape), v)

\* texts written with every value set, and texts written with the first one only
VersionedShapes == { <<"I", "S", "C">>, <<"S", "C">> }
Shapes ==
    { <<>>, <<"I", "C">>, <<"I", "S">>, <<"C">>, <<"I-bytes">>, <<"X", "S", "C">>,
      <<"I", "S-rem", "C">>, <<"S-none", "C">>, <<"I", "S-big", "C">>,
      <<"C", "S">>, <<"C", "S-rem">>, <<"C", "X", "S">>, <<"S", "I", "C">>,
      <<"I-cut">>, <<"I-end">>, <<"I-cut", "S", "C">>, <<"I-mal", "S", "C">>,
      <<"I-bytes", "S", "C">>, <<"S", "I-bytes", "C">>, <<"C", "X", "S-none">> }

Texts == { Concat(shape, v) : shape \in VersionedShapes, v \in Vers }
         \cup { Concat(shape, 1) : shape \in Shapes }

---------------------------------------------------------------------------
(* One parsePfctlOutput call, step by step *)

\* the calls that may run side by side on the package-level tables
Procs == {1, 2}

\* a call that has not started
Idle ==
    [pc |-> "idle", text |-> <<>>, pos |-> 0, line |-> NoLine, k |-> 0, buf |-> <<>>,
     i |-> 0, fields |-> EmptyFields, err |-> NoErr, added |-> <<>>]

RECURSIVE SeekStanza(_, _, _, _)
\* the scan up to the next line that matches a header: the range loop goes on
\* with the current line from stanza k, then the outer loop scans a line and
\* restarts it; k |-> 0 when the input ends first
SeekStanza(text, pos, line, k) ==
    IF k > Len(pfctlOutputStanzas)
    THEN IF ~ScanMore(text, pos) THEN [k |-> 0, pos |-> pos, line |-> line]
         ELSE SeekStanza(text, ScanPos(text, pos), ScanText(text, pos), 1)
    ELSE IF HeaderRE(k, line) THEN [k |-> k, pos |-> pos, line |-> line]
    ELSE SeekStanza(text, pos, line, k + 1)

\* the call after the scan found the header of stanza r.k and collected c
Collected(pr, r, c) ==
    [pr EXCEPT !.pc = IF c.buf = <<>> THEN "copy" ELSE "store",
               !.k = r.k, !.pos = c.pos, !.line = c.line, !.buf = c.buf, !.i = 1]

\* the call after the scan from its current line: in the ParseFunc of the next
\* stanza found, or at the final loop
Sought(pr, r) ==
    IF r.k = 0 THEN [pr EXCEPT !.pc = "check", !.pos = r.pos, !.line = r.line]
    ELSE Collected(pr, r, Collect(pr.text, ScanPos(pr.text, r.pos), ScanText(pr.text, r.pos), <<>>))

\* the entry that buffer line i of the call sets, 0 when it sets none
StoreIndex(pr) ==
    IF tableRE(pr.buf[pr.i]) THEN TitleIndex(entryTable(pr.k), Join(pr.buf[pr.i].words)) ELSE 0

\* the call after buffer line i went through the first loop of storeFieldValues
Stored(pr, err) ==
    IF err # NoErr THEN [pr EXCEPT !.pc = "done", !.err = err]
    ELSE IF pr.i = Len(pr.buf) THEN [pr EXCEPT !.pc = "copy", !.i = 1]
    ELSE [pr EXCEPT !.i = pr.i + 1]

\* a second loop of storeFieldValues that publishes the sentinel
Copied_noCheck(pr, v) ==
    IF pr.i = Len(entryTable(pr.k))
    THEN [pr EXCEPT !.pc = "found", !.fields = (entryTable(pr.k)[pr.i].Field :> v) @@ pr.fields]
    ELSE [pr EXCEPT !.i = pr.i + 1, !.fields = (entryTable(pr.k)[pr.i].Field :> v) @@ pr.fields]

\* the call after the second loop of storeFieldValues read v in entry i
Copied(pr, v) ==
    IF v = -1
    THEN [pr EXCEPT !.pc = "done", !.err = errMissingData(entryTable(pr.k)[pr.i].PfctlTitle)]
    ELSE IF pr.i = Len(entryTable(pr.k))
    THEN [pr EXCEPT !.pc = "found", !.fields = (entryTable(pr.k)[pr.i].Field :> v) @@ pr.fields]
    ELSE [pr EXCEPT !.i = pr.i + 1, !.fields = (entryTable(pr.k)[pr.i].Field :> v) @@ pr.fields]

\* the call after the final loop read the flags found
Checked(pr, found) ==
    [pr EXCEPT !.pc = "done", !.err = HeaderCheck(found),
               !.added = IF HeaderCheck(found) = NoErr THEN << AddFields(pr.fields) >> ELSE <<>>]

\* what the steps of the calls leave alone
GatherUnchanged ==
    UNCHANGED <<PfctlCommand, PfctlArgs, UseSudo, acc, pfoutput, perr, fresh, calls, cursor, ret>>

\* parsePfctlOutput is entered with text t: fields and scanner are made
Start(p, t) ==
    /\ proc[p].pc = "idle"
    /\ proc' = [proc EXCEPT ![p] = [Idle EXCEPT !.pc = "scan", !.text = t,
                                                !.k = Len(pfctlOutputStanzas) + 1]]
    /\ UNCHANGED <<Value, Found>>
    /\ GatherUnchanged

\* the scanner runs to the next header and collects the stanza: no access to
\* the tables
Seek(p) ==
    /\ proc[p].pc = "scan"
    /\ proc' = [proc EXCEPT ![p] =
                   Sought(proc[p], SeekStanza(proc[p].text, proc[p].pos, proc[p].line, proc[p].k))]
    /\ UNCHANGED <<Value, Found>>
    /\ GatherUnchanged

\* one line of the first loop of storeFieldValues: a write of f.Value
Store(p) ==
    /\ proc[p].pc = "store"
    /\ IF StoreIndex(proc[p]) = 0
       THEN /\ proc' = [proc EXCEPT ![p] = Stored(proc[p], NoErr)]
            /\ UNCHANGED Value
       ELSE /\ Value' = [Value EXCEPT ![proc[p].k][StoreIndex(proc[p])] =
                                         ParseInt(proc[p].buf[proc[p].i].nums[1]).v]
            /\ proc' = [proc EXCEPT ![p] =
                           Stored(proc[p], ParseInt(proc[p].buf[proc[p].i].nums[1]).err)]
    /\ UNCHANGED Found
    /\ GatherUnchanged

\* one entry of the second loop of storeFieldValues: a read of v.Value
Copy(p) ==
    /\ proc[p].pc = "copy"
    /\ proc' = [proc EXCEPT ![p] = Copied(proc[p], Value[proc[p].k][proc[p].i])]
    /\ UNCHANGED <<Value, Found>>
    /\ GatherUnchanged

\* s.Found = true, and the range loop goes on with the next stanza
SetFound(p) ==
    /\ proc[p].pc = "found"
    /\ Found' = [Found EXCEPT ![proc[p].k] = TRUE]
    /\ proc' = [proc EXCEPT ![p] = [proc[p] EXCEPT !.pc = "scan", !.k = proc[p].k + 1]]
    /\ UNCHANGED Value
    /\ GatherUnchanged

\* the final loop over the Found flags, and acc.AddFields
Check(p) ==
    /\ proc[p].pc = "check"
    /\ proc' = [proc EXCEPT ![p] = Checked(proc[p], Found)]
    /\ UNCHANGED <<Value, Found>>
    /\ GatherUnchanged

---------------------------------------------------------------------------
(* Gather *)

errLocate(what) == [kind |-> "can't locate", tag |-> what]
errRunning == [kind |-> "error running", tag |-> pfctlCommand]
NotCalled == [kind |-> "not called", tag |-> ""]

AddError(err) == [call |-> "AddError", measurement |-> "", fields |-> EmptyFields, err |-> err]

\* buildPfctlCmd with the results of the two execLookPath calls ("" when it fails)
buildPfctlCmd(useSudo, pfctlPath, doasPath) ==
    IF pfctlPath = ""
    THEN [cmd |-> "", args |-> <<>>, err |-> errLocate(pfctlCommand)]
    ELSE IF useSudo
         THEN IF doasPath = ""
              THEN [cmd |-> "", args |-> <<>>, err |-> errLocate("doas")]
              ELSE [cmd |-> doasPath, args |-> <<pfctlPath, "-s", "info">>, err |-> NoErr]
         ELSE [cmd |-> pfctlPath, args |-> <<"-s", "info">>, err |-> NoErr]

InitValue == [k \in Stanzas |-> [i \in 1..Len(entryTable(k)) |-> entryTable(k)[i].Value]]
InitFound == [k \in Stanzas |-> FALSE]

Init ==
    /\ Value = InitValue
    /\ Found = InitFound
    /\ PfctlCommand = ""
    /\ PfctlArgs = <<>>
    /\ UseSudo \in BOOLEAN
    /\ acc = <<>>
    /\ pfoutput = <<>>
    /\ perr = NotCalled
    /\ fresh = FALSE
    /\ calls = <<>>
    /\ cursor = 0
    /\ ret = NotCalled
    /\ proc = [p \in Procs |-> Idle]

\* the command line Gather runs: the one built before, or a new one
CommandLine(pfctlPath, doasPath) ==
    IF PfctlCommand = ""
    THEN buildPfctlCmd(UseSudo', pfctlPath, doasPath)
    ELSE [cmd |-> PfctlCommand, args |-> PfctlArgs, err |-> NoErr]

\* a Gather that drops the error of parsePfctlOutput
Parse_dropError(o, r) ==
    /\ Value' = r.vals
    /\ Found' = r.found
    /\ pfoutput' = o
    /\ perr' = r.err
    /\ fresh' = (Value = InitValue /\ Found = InitFound)
    /\ calls' = r.calls
    /\ cursor' = r.pos
    /\ acc' = r.added

\* Gather's call of parsePfctlOutput, which returned r
Parse(o, r) ==
    /\ Value' = r.vals
    /\ Found' = r.found
    /\ pfoutput' = o
    /\ perr' = r.err
    /\ fresh' = (Value = InitValue /\ Found = InitFound)
    /\ calls' = r.calls
    /\ cursor' = r.pos
    /\ acc' = r.added \o (IF r.err # NoErr THEN << AddError(r.err) >> ELSE <<>>)

\* Gather with the results of execLookPath and of infoFunc (o, oerr)
Gather(pfctlPath, doasPath, o, oerr) ==
    /\ UseSudo' = TRUE
    /\ ret' = NoErr
    /\ UNCHANGED proc
    /\ PfctlCommand' = CommandLine(pfctlPath, doasPath).cmd
    /\ PfctlArgs' = CommandLine(pfctlPath, doasPath).args
    /\ IF CommandLine(pfctlPath, doasPath).err # NoErr
       THEN /\ acc' = << AddError(CommandLine(pfctlPath, doasPath).err) >>
            /\ perr' = NotCalled
            /\ UNCHANGED <<Value, Found, pfoutput, fresh, calls, cursor>>
       ELSE IF oerr
       THEN /\ acc' = << AddError(errRunning) >>
            /\ perr' = NotCalled
            /\ UNCHANGED <<Value, Found, pfoutput, fresh, calls, cursor>>
       ELSE Parse(o, parsePfctlOutput(o, Value, Found))

\* what the environment hands to one Gather call
Envs ==
    { [pfctl |-> "", doas |-> "/usr/bin/doas", o |-> <<>>, oerr |-> FALSE],
      [pfctl |-> "/sbin/pfctl", doas |-> "", o |-> <<>>, oerr |-> FALSE],
      [pfctl |-> "/sbin/pfctl", doas |-> "/usr/bin/doas",
       o |-> Concat(<<"I", "S", "C">>, 1), oerr |-> TRUE] }
    \cup { [pfctl |-> "/sbin/pfctl", doas |-> "/usr/bin/doas", o |-> t, oerr |-> FALSE] : t \in Texts }

Next == \E e \in Envs : Gather(e.pfctl, e.doas, e.o, e.oerr)

Spec == Init /\ [][Next]_vars

\* the texts of the calls that run side by side: State Table written with two
\* value sets or lacking its removals line or absent, and one Counters stanza
ConcTexts ==
    { Section("S", 1) \o Section("C", 1), Section("S", 2) \o Section("C", 1),
      Section("S-rem", 1) \o Section("C", 1), Section("C", 1) }

\* two plugin instances, not yet run, in one process
InitConc == Init /\ UseSudo

NextConc ==
    \E p \in Procs :
        \/ \E t \in ConcTexts : Start(p, t)
        \/ Seek(p)
        \/ Store(p)
        \/ Copy(p)
        \/ SetFound(p)
        \/ Check(p)

\* parsePfctlOutput calls of two plugin instances, interleaved at the reads and
\* writes of the package-level tables
SpecConc == InitConc /\ [][NextConc]_vars

---------------------------------------------------------------------------
(* Vocabulary of the properties *)

\* the last Gather reached parsePfctlOutput
Parsed == perr # NotCalled

\* the maps handed to acc.AddFields by the last Gather
AddFieldsCalls == {i \in 1..Len(acc) : acc[i].call = "AddFields"}
Reported == {acc[i].fields : i \in AddFieldsCalls}

Fields(table) == {table[i].Field : i \in 1..Len(table)}
InterfaceKeys == Fields(InterfaceTable)
StateKeys == Fields(StateTable)
CounterKeys == Fields(CounterTable)
\* the interface-stats keys of the published key set
PublishedInterfaceKeys ==
    {"bytes-in", "bytes-out", "packets-in-passed", "packets-in-blocked",
     "packets-out-passed", "packets-out-blocked"}

\* the values a text of value set v writes for the entries of table k
Written(k, v, m) ==
    \A i \in 1..Len(entryTable(k)) : m[entryTable(k)[i].Field] = Num(v, k, i)

\* the text has a line starting with the header of stanza k
HasHeader(text, k) == \E i \in 1..Len(text) : HeaderRE(k, text[i])

\* the lines the scanner collects after the first header line of stanza k
StanzaBuf(text, k) ==
    LET i == CHOOSE i \in 1..Len(text) :
                 HeaderRE(k, text[i]) /\ \A j \in 1..(i - 1) : ~HeaderRE(k, text[j])
    IN Collect(text, ScanPos(text, i), ScanText(text, i), <<>>).buf

LabelsIn(buf) == {Join(buf[i].words) : i \in {j \in 1..Len(buf) : tableRE(buf[j])}}

\* the entries of table k whose label is on no label-plus-integer line of the stanza
MissingIdx(text, k) ==
    {i \in 1..Len(entryTable(k)) : entryTable(k)[i].PfctlTitle \notin LabelsIn(StanzaBuf(text, k))}

Defective(text) == {k \in Stanzas : HasHeader(text, k) /\ MissingIdx(text, k) # {}}

HasOverflow(text) ==
    \E i \in 1..Len(text) : \E j \in 1..Len(text[i].nums) : text[i].nums[j] > MaxInt64

CompleteStanza(text, k) == HasHeader(text, k) /\ MissingIdx(text, k) = {} /\ ~HasOverflow(text)

Min(S) == CHOOSE x \in S : \A y \in S : x <= y

WellFormed(v) == Concat(<<"I", "S", "C">>, v)

---------------------------------------------------------------------------
(* Properties *)

\* C1: a parse that starts from the initial tables on a text with the three
\* stanzas and every expected label returns no error and reports a map whose
\* keys are exactly the six published interface keys, the four State Table
\* keys and the fifteen Counters keys, each with the integer of the text.
C1_PublishedKeySet ==
    \A v \in Vers :
        (Parsed /\ fresh /\ pfoutput = WellFormed(v)) =>
            /\ perr = NoErr
            /\ \E m \in Reported :
                  /\ Reported = {m}
                  /\ DOMAIN m = PublishedInterfaceKeys \cup StateKeys \cup CounterKeys
                  /\ m["bytes-in"] = Num(v, 1, 1)
                  /\ m["bytes-out"] = Num(v, 1, 2)
                  /\ m["packets-in-passed"] = Num(v, 1, 5)
                  /\ m["packets-in-blocked"] = Num(v, 1, 6)
                  /\ m["packets-out-passed"] = Num(v, 1, 7)
                  /\ m["packets-out-blocked"] = Num(v, 1, 8)
                  /\ Written(2, v, m)
                  /\ Written(3, v, m)

\* the text lacks the State Table header line or the Counters header line
LacksMandatory(text) == ~HasHeader(text, 2) \/ ~HasHeader(text, 3)

\* C2 as stated: from the initial tables, a text without a State Table line
\* or without a Counters line gives the section-not-found error and no report.
C2_SectionNotFound ==
    (Parsed /\ fresh /\ LacksMandatory(pfoutput)) =>
        (perr = errParseHeader /\ Reported = {})

\* C2 amended: from the initial tables, a text without a State Table line or
\* without a Counters line gives an error and no report; the error is
\* section-not-found unless a stanza that is present fails extraction, and
\* then it is that extractor's error.
C2_ErrorWithoutMandatory ==
    (Parsed /\ fresh /\ LacksMandatory(pfoutput)) =>
        /\ Reported = {}
        /\ perr.kind \in {"errParseHeader", "errMissingData", "ErrRange"}
        /\ (Defective(pfoutput) = {} /\ ~HasOverflow(pfoutput)) => perr = errParseHeader
        /\ perr # errParseHeader =>
              \/ perr = errRange /\ HasOverflow(pfoutput)
              \/ \E k \in Defective(pfoutput) :
                    perr = errMissingData(entryTable(k)[Min(MissingIdx(pfoutput, k))].PfctlTitle)

C2_Witness ==
    /\ Parsed /\ fresh /\ HasHeader(pfoutput, 3) /\ ~HasHeader(pfoutput, 2)
    /\ perr = errParseHeader /\ acc = << AddError(errParseHeader) >>

\* C3: every map reported by any parse call has the four State Table keys,
\* the fifteen Counters keys and all or none of the interface keys.
C3_CompleteMap ==
    \A m \in Reported :
        /\ StateKeys \cup CounterKeys \subseteq DOMAIN m
        /\ InterfaceKeys \subseteq DOMAIN m \/ InterfaceKeys \cap DOMAIN m = {}

\* C4: whatever the earlier calls, a parse of a text has the outcome (error
\* kind or reported map) of the parse of that text from the initial tables.
C4_HistoryIndependent ==
    Parsed =>
        LET r == parsePfctlOutput(pfoutput, InitValue, InitFound)
        IN /\ perr.kind = r.err.kind
           /\ Reported = {r.added[i].fields : i \in 1..Len(r.added)}

\* C5: from the initial tables, a stanza whose header is present and one of
\* whose labels is on no label-plus-integer line makes the parse fail with
\* counter-not-found naming the stanza's first missing label, with no report.
C5_CounterNotFound ==
    (Parsed /\ fresh /\ Defective(pfoutput) # {}) =>
        /\ Reported = {}
        /\ \E k \in Defective(pfoutput) :
              perr = errMissingData(entryTable(k)[Min(MissingIdx(pfoutput, k))].PfctlTitle)

\* C6: a parse call invokes the sink at most once, and exactly when it
\* returns no error.
C6_SinkIffNoError ==
    /\ Cardinality(AddFieldsCalls) <= 1
    /\ Parsed => (AddFieldsCalls # {} <=> perr = NoErr)
    /\ ~Parsed => AddFieldsCalls = {}

C6_Witness ==
    /\ Parsed /\ perr.kind = "ErrRange" /\ Found[1] /\ AddFieldsCalls = {}

\* C7: a text without Interface Stats header and with complete State Table
\* and Counters stanzas parses without error into a map of exactly the four
\* State Table keys and the fifteen Counters keys, whatever the earlier calls.
C7_NoInterfaceStanza ==
    (Parsed /\ ~HasHeader(pfoutput, 1)
        /\ CompleteStanza(pfoutput, 2) /\ CompleteStanza(pfoutput, 3)) =>
        /\ perr = NoErr
        /\ \A m \in Reported : DOMAIN m = StateKeys \cup CounterKeys
        /\ Reported # {}

\* the IPv6 integers of the interface stanza of a text of value set v
IPv6Nums(v) == {Num(v, 1, i) : i \in {3, 4, 9, 10, 11, 12}}

\* C8: of the interface stats only the IPv4 component is exposed, one key per
\* counter; the IPv6 components are under no key of the reported map.
C8_IPv4Only ==
    \A v \in Vers :
        (Parsed /\ perr = NoErr /\ pfoutput = WellFormed(v)) =>
            \A m \in Reported :
                /\ PublishedInterfaceKeys \subseteq DOMAIN m
                /\ \A key \in DOMAIN m : m[key] \notin IPv6Nums(v)
                /\ m["bytes-in"] = Num(v, 1, 1)
                /\ m["bytes-out"] = Num(v, 1, 2)
                /\ m["packets-in-passed"] = Num(v, 1, 5)
                /\ m["packets-in-blocked"] = Num(v, 1, 6)
                /\ m["packets-out-passed"] = Num(v, 1, 7)
                /\ m["packets-out-blocked"] = Num(v, 1, 8)

\* C9: configured with use_sudo = false, Gather builds the command line as
\* the located pfctl with arguments -s info; doas is the command only when
\* use_sudo is true.
C9_SudoOnlyWhenConfigured ==
    [][(~UseSudo /\ PfctlCommand = "" /\ PfctlCommand' # "") =>
          (PfctlCommand' = "/sbin/pfctl" /\ PfctlArgs' = <<"-s", "info">>)]_vars

\* C10: every line matching a stanza header starts that stanza's collection
\* and extraction and leads to the stanza being marked found, in whatever
\* order the stanzas appear; from the initial tables, a scan that no
\* extractor aborted has marked every stanza whose header is in the text.
C10_NoHeaderSkipped ==
    (Parsed /\ fresh /\ perr.kind \notin {"errMissingData", "ErrRange"}) =>
        \A k \in Stanzas : HasHeader(pfoutput, k) => Found[k]

---------------------------------------------------------------------------
(* Vocabulary of the properties about the collection of a stanza *)

\* index of the first line after line hdr that begins with an upper-case
\* letter, Len(text) + 1 when there is none
Terminator(text, hdr) ==
    IF \E p \in (hdr + 1)..Len(text) : anyTableHeaderRE(text[p])
    THEN Min({p \in (hdr + 1)..Len(text) : anyTableHeaderRE(text[p])})
    ELSE Len(text) + 1

\* the lines strictly between line hdr and its terminator
Between(text, hdr) == SubSeq(text, hdr + 1, Terminator(text, hdr) - 1)

WordsOf(lines) == UNION {{lines[i].words[j] : j \in 1..Len(lines[i].words)} : i \in 1..Len(lines)}
NumsOf(lines) == UNION {{lines[i].nums[j] : j \in 1..Len(lines[i].nums)} : i \in 1..Len(lines)}

\* C11: the collection of a stanza ends at the first upper-case-initial line
\* after the header or at the end of the input: the scanner has then read up
\* to that line and no further, and every word and integer of the buffer
\* comes from the lines strictly between the header and that line.
C11_CollectionEndsAtTerminator ==
    Parsed =>
        \A n \in 1..Len(calls) :
            /\ calls[n].end = Min({Terminator(pfoutput, calls[n].hdr), Len(pfoutput)})
            /\ WordsOf(calls[n].buf) \subseteq
                   WordsOf(Between(pfoutput, calls[n].hdr)) \cup {"IPv4", "IPv6"}
            /\ NumsOf(calls[n].buf) \subseteq NumsOf(Between(pfoutput, calls[n].hdr))

\* C12: when a ParseFunc returns an error, the parse returns that error at
\* once: it is the last ParseFunc call, the scanner has read no line since
\* the collection ended, and nothing is reported; a Found flag goes from
\* false to true only for a stanza whose ParseFunc returned without error.
C12_ExtractorErrorAborts ==
    [][perr' # NotCalled =>
          /\ \A n \in 1..Len(calls') :
                calls'[n].err # NoErr =>
                    /\ n = Len(calls')
                    /\ perr' = calls'[n].err
                    /\ cursor' = calls'[n].end
                    /\ acc' = << AddError(calls'[n].err) >>
                    /\ (\A m \in 1..(n - 1) : calls'[m].k # calls'[n].k) =>
                          Found'[calls'[n].k] = Found[calls'[n].k]
          /\ \A k \in Stanzas :
                (Found'[k] /\ ~Found[k]) =>
                    \E n \in 1..Len(calls') : calls'[n].k = k /\ calls'[n].err = NoErr
          /\ \A k \in Stanzas : Found[k] => Found'[k]]_vars

\* a State Table stanza without its removals line fails after Interface Stats
\* was extracted, with the Counters stanza still unread
C12_Witness ==
    /\ Parsed /\ fresh /\ Len(calls) = 2
    /\ calls[2].k = 2 /\ calls[2].err = errMissingData("removals") /\ perr = calls[2].err
    /\ Found = <<TRUE, FALSE, FALSE>>
    /\ cursor < Len(pfoutput) /\ HeaderRE(3, pfoutput[cursor])

\* the integers the text carries on the lines of entry i of table k: those of
\* the lines whose words begin the entry's label
CarriedBy(text, k, i) ==
    {text[p].nums[j] : <<p, j>> \in
        {<<p, j>> \in (1..Len(text)) \X (1..2) :
            /\ j <= Len(text[p].nums)
            /\ text[p].ind > 0 /\ text[p].words # <<>>
            /\ \/ Join(text[p].words) = entryTable(k)[i].PfctlTitle
               \/ k = 1}}

\* C13: a value slot holds the sentinel -1 or an integer of a parsed text:
\* slots start at -1, and a Gather call changes a slot only to an integer
\* that the text it parsed carries on a line of that entry, also when the
\* integer parse fails.
C13_ValueFromText ==
    [][\A k \in Stanzas : \A i \in 1..Len(entryTable(k)) :
          Value'[k][i] # Value[k][i] =>
              (perr' # NotCalled /\ Value'[k][i] \in CarriedBy(pfoutput', k, i))]_vars

\* line p of the text is a Packets line that the collection started at line
\* hdr meets as a data line (it is not read by the look-ahead of another one)
PacketsAt(text, hdr, p) ==
    /\ hdr < p /\ p < Terminator(text, hdr)
    /\ packetsRE(text[p])
    /\ \A q \in {p - 1, p - 2} : q > hdr => ~packetsRE(text[q])

\* the Packets label of line p: "Packets In" or "Packets Out"
PacketsLabel(text, p) == SubSeq(text[p].words, 1, 2)

\* the indices of the buffer lines that begin with the label
LabelledBy(buf, label) == {j \in 1..Len(buf) : IsPrefix(label, buf[j].words)}

\* the synthetic line: Packets label, sub-label, protocol and one integer
Synthetic(text, p, q, proto, n) ==
    Line(text[p].ind, PacketsLabel(text, p) \o text[q].words \o <<proto>>, <<text[q].nums[n]>>)

\* C14: a Packets In or Packets Out line followed by two lines with a
\* sub-label and two integers puts four lines into the buffer, in the order
\* sub-label 1 IPv4, sub-label 1 IPv6, sub-label 2 IPv4, sub-label 2 IPv6,
\* each with the Packets label in front; these are the only lines of the
\* buffer with that label when the stanza has one such Packets line, and
\* none of the three source lines is in the buffer.
C14_FourSyntheticLines ==
    Parsed =>
        \A n \in 1..Len(calls) : \A p \in 1..(Len(pfoutput) - 2) :
            (/\ PacketsAt(pfoutput, calls[n].hdr, p)
             /\ IPvRE(pfoutput[p + 1]) /\ IPvRE(pfoutput[p + 2])) =>
                /\ \E j \in 1..Len(calls[n].buf) :
                      /\ j + 3 <= Len(calls[n].buf)
                      /\ SubSeq(calls[n].buf, j, j + 3) =
                            << Synthetic(pfoutput, p, p + 1, "IPv4", 1),
                               Synthetic(pfoutput, p, p + 1, "IPv6", 2),
                               Synthetic(pfoutput, p, p + 2, "IPv4", 1),
                               Synthetic(pfoutput, p, p + 2, "IPv6", 2) >>
                      /\ (\A q \in 1..Len(pfoutput) :
                              (PacketsAt(pfoutput, calls[n].hdr, q)
                                 /\ PacketsLabel(pfoutput, q) = PacketsLabel(pfoutput, p)) => q = p)
                          => LabelledBy(calls[n].buf, PacketsLabel(pfoutput, p)) = j..(j + 3)
                /\ \A j \in 1..Len(calls[n].buf) :
                      calls[n].buf[j] \notin {pfoutput[p], pfoutput[p + 1], pfoutput[p + 2]}

\* the Interface Stats buffer of the complete text: two lines for each Bytes
\* line, then four for Packets In and four for Packets Out
C14_Witness ==
    /\ Parsed /\ pfoutput = WellFormed(1) /\ Len(calls) = 3 /\ calls[1].k = 1
    /\ Len(calls[1].buf) = 12
    /\ SubSeq(calls[1].buf, 5, 8) =
          << Line(2, <<"Packets", "In", "Passed", "IPv4">>, <<Num(1, 1, 5)>>),
             Line(2, <<"Packets", "In", "Passed", "IPv6">>, <<Num(1, 1, 9)>>),
             Line(2, <<"Packets", "In", "Blocked", "IPv4">>, <<Num(1, 1, 6)>>),
             Line(2, <<"Packets", "In", "Blocked", "IPv6">>, <<Num(1, 1, 10)>>) >>

\* line p is a data line of the collection started at line hdr that is
\* neither a Packets line nor one of the two lines after a Packets line
PlainAt(text, hdr, p) ==
    /\ hdr < p /\ p < Terminator(text, hdr)
    /\ ~packetsRE(text[p])
    /\ \A q \in {p - 1, p - 2} : ~(q > hdr /\ PacketsAt(text, hdr, q))

\* a Bytes In or Bytes Out line with (at least) two integers after the label
BytesShape(line) ==
    /\ line.ind > 0
    /\ line.words \in {<<"Bytes", "In">>, <<"Bytes", "Out">>}
    /\ Len(line.nums) >= 2

Occurrences(lines, l) == Cardinality({j \in 1..Len(lines) : lines[j] = l})

\* C15: a Bytes In or Bytes Out line with two integers a and b puts the two
\* lines "label IPv4 a" and "label IPv6 b" into the buffer, in this order,
\* and is not itself in the buffer; every other line outside the Packets
\* groups is in the buffer unchanged, as often as it is in the stanza; a
\* stanza without Packets and Bytes lines has its lines as its buffer.
C15_BytesSplitOthersVerbatim ==
    Parsed =>
        \A n \in 1..Len(calls) :
            /\ \A p \in 1..Len(pfoutput) :
                  PlainAt(pfoutput, calls[n].hdr, p) =>
                      IF BytesShape(pfoutput[p])
                      THEN /\ \E j \in 1..(Len(calls[n].buf) - 1) :
                                 /\ calls[n].buf[j] =
                                       Line(pfoutput[p].ind, pfoutput[p].words \o <<"IPv4">>,
                                            <<pfoutput[p].nums[1]>>)
                                 /\ calls[n].buf[j + 1] =
                                       Line(pfoutput[p].ind, pfoutput[p].words \o <<"IPv6">>,
                                            <<pfoutput[p].nums[2]>>)
                                 /\ Occurrences(Between(pfoutput, calls[n].hdr), pfoutput[p]) = 1
                                       => LabelledBy(calls[n].buf, pfoutput[p].words) = {j, j + 1}
                           /\ Occurrences(calls[n].buf, pfoutput[p]) = 0
                      ELSE Occurrences(calls[n].buf, pfoutput[p]) =
                               Occurrences(Between(pfoutput, calls[n].hdr), pfoutput[p])
            /\ (/\ Between(pfoutput, calls[n].hdr) # <<>>
                /\ \A p \in 1..Len(pfoutput) :
                      (calls[n].hdr < p /\ p < Terminator(pfoutput, calls[n].hdr)) =>
                          (~packetsRE(pfoutput[p]) /\ ~BytesShape(pfoutput[p])))
                 => calls[n].buf = Between(pfoutput, calls[n].hdr)

\* the buffers of the complete text: the Interface Stats buffer begins with
\* the four lines made from the two Bytes lines, the State Table buffer is
\* the stanza's four lines
C15_Witness ==
    /\ Parsed /\ pfoutput = WellFormed(2) /\ Len(calls) = 3
    /\ calls[1].k = 1 /\ calls[2].k = 2
    /\ SubSeq(calls[1].buf, 1, 4) =
          << Line(2, <<"Bytes", "In", "IPv4">>, <<Num(2, 1, 1)>>),
             Line(2, <<"Bytes", "In", "IPv6">>, <<Num(2, 1, 3)>>),
             Line(2, <<"Bytes", "Out", "IPv4">>, <<Num(2, 1, 2)>>),
             Line(2, <<"Bytes", "Out", "IPv6">>, <<Num(2, 1, 4)>>) >>
    /\ calls[2].buf = Body(2, 2)

\* the lines after the Packets line p that exist and have a sub-label and two
\* integers, and those that exist and have not
WellFormedAfter(text, p) == {q \in {p + 1, p + 2} : q <= Len(text) /\ IPvRE(text[q])}
MalformedAfter(text, p) == {q \in {p + 1, p + 2} : q <= Len(text) /\ ~IPvRE(text[q])}

\* the Packets line p has fewer than two well-formed lines after it
Deficient(text, p) == Cardinality(WellFormedAfter(text, p)) < 2

\* C16: a Packets line with fewer than two further lines, or with further
\* lines that lack the sub-label and two integers, gets two synthetic lines
\* for each well-formed line and none for a missing or malformed one, which
\* is dropped; the collection goes on and its buffer reaches the ParseFunc,
\* whose error, if any, is the missing-data error of its table (from the
\* initial tables: the first error of the parse).
C16_LenientLookAhead ==
    Parsed =>
        \A n \in 1..Len(calls) : \A p \in 1..Len(pfoutput) :
            (PacketsAt(pfoutput, calls[n].hdr, p) /\ Deficient(pfoutput, p)) =>
                /\ (\A q \in 1..Len(pfoutput) :
                        (PacketsAt(pfoutput, calls[n].hdr, q)
                           /\ PacketsLabel(pfoutput, q) = PacketsLabel(pfoutput, p)) => q = p)
                    => Cardinality(LabelledBy(calls[n].buf, PacketsLabel(pfoutput, p)))
                          = 2 * Cardinality(WellFormedAfter(pfoutput, p))
                /\ \A q \in WellFormedAfter(pfoutput, p) :
                      /\ Occurrences(calls[n].buf, Synthetic(pfoutput, p, q, "IPv4", 1)) = 1
                      /\ Occurrences(calls[n].buf, Synthetic(pfoutput, p, q, "IPv6", 2)) = 1
                /\ \A q \in MalformedAfter(pfoutput, p) :
                      Occurrences(calls[n].buf, pfoutput[q]) = 0
                /\ calls[n].end >= Min({p + 2, Len(pfoutput)})
                /\ \/ calls[n].err = NoErr
                   \/ \E i \in 1..Len(entryTable(calls[n].k)) :
                         calls[n].err = errMissingData(entryTable(calls[n].k)[i].PfctlTitle)
                   \/ calls[n].err = errRange /\ HasOverflow(pfoutput)
                /\ (fresh /\ ~HasOverflow(pfoutput)) =>
                      /\ calls[n].err.kind = "errMissingData"
                      /\ perr = calls[n].err

\* the Passed line after Packets In has one integer: no line for it, two for
\* the Blocked line, the Packets Out group is expanded, and the parse fails
\* in the extractor of Interface Stats
C16_Witness ==
    /\ Parsed /\ fresh /\ pfoutput = Concat(<<"I-mal", "S", "C">>, 1)
    /\ Len(calls) = 1 /\ calls[1].k = 1
    /\ perr = errMissingData("Packets In Passed IPv4")
    /\ Len(calls[1].buf) = 10
    /\ LabelledBy(calls[1].buf, <<"Packets", "In">>) = {5, 6}
    /\ acc = << AddError(perr) >>

\* C17: from the initial tables, a text with the Interface Stats header and
\* without one of the interface labels in that stanza fails with the
\* missing-data error of an interface entry and reports nothing, also when
\* the State Table and Counters stanzas are complete.
C17_OptionalCoversHeaderOnly ==
    (Parsed /\ fresh /\ HasHeader(pfoutput, 1) /\ MissingIdx(pfoutput, 1) # {}) =>
        /\ \E i \in MissingIdx(pfoutput, 1) : perr = errMissingData(InterfaceTable[i].PfctlTitle)
        /\ Reported = {}

\* C19: every Gather call returns nil and makes one accumulator call:
\* AddError with the lookup error when the command line cannot be built,
\* AddError with the run error when the command fails (the tables and the
\* record of the last parse are then as before: the output is not parsed),
\* AddError with the parse error when the parse fails, and AddFields with
\* the measurement name when the parse succeeds.
C19_OneAccumulatorCall ==
    [][/\ ret' = NoErr
       /\ Len(acc') = 1
       /\ \/ /\ acc'[1].call = "AddError"
             /\ acc'[1].err \in {errLocate(pfctlCommand), errLocate("doas")}
             /\ PfctlCommand' = ""
             /\ UNCHANGED <<Value, Found, pfoutput, perr, calls, cursor>>
          \/ /\ acc'[1] = AddError(errRunning)
             /\ PfctlCommand' # ""
             /\ perr' = NotCalled
             /\ UNCHANGED <<Value, Found, pfoutput, calls, cursor>>
          \/ /\ perr' \notin {NotCalled, NoErr}
             /\ PfctlCommand' # ""
             /\ acc'[1] = AddError(perr')
          \/ /\ perr' = NoErr
             /\ PfctlCommand' # ""
             /\ acc'[1].call = "AddFields"
             /\ acc'[1].measurement = measurement]_vars

\* a Gather whose command failed made the one AddError call, after a Gather
\* that parsed a text with success
C19_Witness ==
    /\ ret = NoErr /\ acc = << AddError(errRunning) >>
    /\ perr = NotCalled /\ pfoutput # <<>> /\ Found = <<TRUE, TRUE, TRUE>>

\* the collection of the call ran out of input: it has read the last line and
\* did not stop at an upper-case-initial line
RanOut(text, c) == c.end = Len(text) /\ ~anyTableHeaderRE(c.line)

\* the integers of the data lines after line hdr that are outside the Packets groups
PlainNums(text, hdr) ==
    UNION {{text[p].nums[j] : j \in 1..Len(text[p].nums)} :
              p \in {q \in 1..Len(text) : PlainAt(text, hdr, q)}}

\* C20: a parse ends with an error and no report or with no error and one
\* report; the scanner reads the lines in order, each at most once: the
\* ParseFunc calls are made for headers in increasing order, the lines of
\* one collection lie after its header and before the next call's lines,
\* and the scan never passes the end of the text; a parse without error has
\* read the whole text; a collection that runs out of input after the
\* header, in a look-ahead or between data lines, hands the lines it has to
\* the ParseFunc, and the only errors are those of the ParseFunc and of the
\* final header check.
C20_TerminatesCursorForward ==
    Parsed =>
        /\ \/ perr # NoErr /\ AddFieldsCalls = {}
           \/ perr = NoErr /\ Cardinality(AddFieldsCalls) = 1
        /\ perr = errParseHeader
              \/ perr = NoErr
              \/ (calls # <<>> /\ perr = calls[Len(calls)].err)
        /\ cursor \in 0..Len(pfoutput)
        /\ perr \in {NoErr, errParseHeader} => cursor = Len(pfoutput)
        /\ \A n \in 1..Len(calls) :
              /\ 1 <= calls[n].hdr /\ calls[n].hdr <= calls[n].end /\ calls[n].end <= cursor
              /\ HeaderRE(calls[n].k, pfoutput[calls[n].hdr])
              /\ calls[n].hdr < Len(pfoutput) => calls[n].hdr < calls[n].end
              /\ \A m \in (n + 1)..Len(calls) : calls[n].end <= calls[m].hdr
              /\ RanOut(pfoutput, calls[n]) =>
                    /\ \A m \in (n + 1)..Len(calls) : FALSE
                    /\ PlainNums(pfoutput, calls[n].hdr) \subseteq NumsOf(calls[n].buf)
                    /\ calls[n].err.kind \in {"nil", "errMissingData", "ErrRange"}
                    /\ cursor = Len(pfoutput)

\* the input ends in the look-ahead after Packets Out: the Interface Stats
\* buffer has the ten lines made so far and the extractor reports the
\* missing entry
C20_Witness ==
    /\ Parsed /\ fresh /\ pfoutput = Concat(<<"I-cut">>, 1)
    /\ Len(calls) = 1 /\ RanOut(pfoutput, calls[1]) /\ Len(calls[1].buf) = 10
    /\ cursor = Len(pfoutput)
    /\ perr = errMissingData("Packets Out Blocked IPv4")

---------------------------------------------------------------------------
(* Properties of the calls that run side by side (SpecConc) *)

Other(p) == CHOOSE q \in Procs : q # p

\* the integers of the map the call reported
ReportedNums(pr) ==
    UNION {{pr.added[n].fields[key] : key \in DOMAIN pr.added[n].fields} : n \in 1..Len(pr.added)}

\* C18: two parse calls on the package-level tables are safe only apart. A
\* call that ends before the other one starts has the outcome and leaves the
\* tables of the parse of its text from the initial tables, and every
\* integer a call reports is in its text or in the text of the other call;
\* C18_Witness is the interleaving in which a call reports an integer of the
\* other call's text and succeeds on a text that lacks a counter.
C18_SafeOnlyApart ==
    \A p \in Procs :
        proc[p].pc = "done" =>
            /\ ReportedNums(proc[p]) \subseteq
                   NumsOf(proc[p].text) \cup NumsOf(proc[Other(p)].text)
            /\ proc[p].err = NoErr <=> Len(proc[p].added) = 1
            /\ proc[Other(p)].pc = "idle" =>
                  /\ proc[p].err = parsePfctlOutput(proc[p].text, InitValue, InitFound).err
                  /\ proc[p].added = parsePfctlOutput(proc[p].text, InitValue, InitFound).added
                  /\ proc[p].pos = parsePfctlOutput(proc[p].text, InitValue, InitFound).pos
                  /\ Value = parsePfctlOutput(proc[p].text, InitValue, InitFound).vals
                  /\ Found = parsePfctlOutput(proc[p].text, InitValue, InitFound).found

\* call 1 parses a text whose State Table stanza has no removals line, call 2
\* a complete text written with other values: call 1 returns nil and reports
\* under removals the integer of the text of call 2
C18_Witness ==
    /\ proc[1].pc = "done" /\ proc[2].pc = "done"
    /\ proc[1].text = Section("S-rem", 1) \o Section("C", 1)
    /\ proc[2].text = Section("S", 2) \o Section("C", 1)
    /\ proc[1].err = NoErr /\ Len(proc[1].added) = 1
    /\ proc[1].added[1].fields["removals"] = Num(2, 2, 4)
    /\ Num(2, 2, 4) \notin NumsOf(proc[1].text)
    /\ MissingIdx(proc[1].text, 2) = {4}

=============================================================================
